---- MODULE Spec2Model ----
(***************************************************************************)
(* Game code sender of dingomata (cogs/gamecode/gamecode.py): the per-guild *)
(* member pools, the round title, the last picked users, the previously    *)
(* selected users, and the slash-command handlers that act on them.        *)
(*                                                                         *)
(* The handlers are asyncio coroutines on one event loop: the code between *)
(* two awaits runs without interruption, so each action below is one such  *)
(* segment.  Only pick touches the cog's state after its first await (it   *)
(* calls resend after announcing), so pick is two actions; every other     *)
(* handler's awaits are its final replies and the handler is one action.   *)
(***************************************************************************)
EXTENDS Integers, Sequences, FiniteSets, TLC

\* ---- bounds -------------------------------------------------------------
NumMembers == 2
MaxCount == 2
MaxInflight == 1

\* ---- the values the handlers are called with ----------------------------
\* Guild ids are Discord snowflakes (large integers), far above any list length.
Guilds == {1001, 1002}
Members == 1..NumMembers
\* the users who can issue join and leave in each guild: the guild that
\* restricts joining is the smaller one
GuildMembers(g) == IF g = 1001 THEN 1..(NumMembers - 1) ELSE Members
Roles == {"r1"}
None == "None"
Titles == {"", "t1"}
Counts == 0..MaxCount
DeliveryOutcomes == {"ok", "Forbidden", "HTTPException"}

\* game_code section of each guild's configuration (read-only): one guild
\* excludes selected users and restricts joining to a role, the other does neither.
GuildConfigs ==
    [g \in Guilds |-> IF g = 1001
                      THEN [exclude_selected |-> TRUE, player_roles |-> {"r1"}]
                      ELSE [exclude_selected |-> FALSE, player_roles |-> {None}]]

VARIABLES pools, title, picked_users, previously_selected_users,
          announcing, result

vars == <<pools, title, picked_users, previously_selected_users,
          announcing, result>>

\* ---- helpers ------------------------------------------------------------
Min(a, b) == IF a < b THEN a ELSE b

Range(s) == {s[i] : i \in 1..Len(s)}

NoDuplicates(s) == \A i, j \in 1..Len(s) : s[i] = s[j] => i = j

\* every ordered sample of k distinct elements of S
Samples(S, k) == {s \in [1..k -> S] : \A i, j \in 1..k : s[i] = s[j] => i = j}

get_guild_config(g) == GuildConfigs[g]

\* ---- MemberPool (dingomata/cogs/gamecode/pool.py) ------------------------
NewPool == [is_open |-> FALSE, members |-> {}]

MemberPool_open(p) == [p EXCEPT !.is_open = TRUE]

MemberPool_close(p) == [p EXCEPT !.is_open = FALSE]

MemberPool_clear(p) == [p EXCEPT !.members = {}]

MemberPool_size(p) == Cardinality(p.members)

\* roles are checked against the guild's player_roles; None admits everyone
MemberRoleOk(g, roles) ==
    \/ None \in get_guild_config(g).player_roles
    \/ roles \cap get_guild_config(g).player_roles # {}

\* add_member: raises MemberRoleError before adding, else adds (idempotent)
MemberPool_add_member(g, p, m, roles) ==
    IF MemberRoleOk(g, roles)
    THEN [raised |-> "", pool |-> [p EXCEPT !.members = @ \cup {m}]]
    ELSE [raised |-> "MemberRoleError", pool |-> p]

MemberPool_remove_member(p, m) == [p EXCEPT !.members = @ \ {m}]

\* pick(count): the pool is closed whatever happens next; a non-positive count
\* is rejected before any draw, an empty pool is an error, and otherwise the
\* draw is min(count, size) distinct members.  The membership is kept.
MemberPool_pick(p, count, draw) ==
    IF count <= 0
    THEN [raised |-> "InvalidCount", pool |-> MemberPool_close(p), picked |-> <<>>]
    ELSE IF p.members = {}
    THEN [raised |-> "EmptyPool", pool |-> MemberPool_close(p), picked |-> <<>>]
    ELSE [raised |-> "", pool |-> MemberPool_close(p), picked |-> draw]

\* the draws random sampling can return for pick(count) on pool p
Draws(p, count) ==
    IF count <= 0 \/ p.members = {} THEN {<<>>}
    ELSE Samples(p.members, Min(count, MemberPool_size(p)))

\* ---- the cog's containers -----------------------------------------------
\* _picked_users and _previously_selected_users start as dicts keyed by guild
\* and are later rebound to a list (pick) and to a set (clear_selected).
EmptyDict == [kind |-> "dict", map |-> <<>>, items |-> <<>>, elems |-> {}]

AsList(s) == [kind |-> "list", map |-> <<>>, items |-> s, elems |-> {}]

EmptySet == [kind |-> "set", map |-> <<>>, items |-> <<>>, elems |-> {}]

\* _pool_for_guild: the guild's pool, created closed and empty on first use
pool_for_guild(g) == IF g \in DOMAIN pools THEN pools[g] ELSE NewPool

\* self._pools after _pool_for_guild(g) and a mutation of that pool to p
PoolsWith(g, p) == [h \in (DOMAIN pools) \cup {g} |-> IF h = g THEN p ELSE pools[h]]

\* `author in self._previously_selected_users`: a dict is searched by key, and
\* its keys are guild ids, never Members; a set is searched by element.
author_in_previously_selected_inverted(author) ==
    IF previously_selected_users.kind = "dict" THEN TRUE
    ELSE author \notin previously_selected_users.elems

author_in_previously_selected(author) ==
    IF previously_selected_users.kind = "dict" THEN FALSE
    ELSE author \in previously_selected_users.elems

\* self._picked_users[ctx.guild.id] as resend evaluates it
picked_users_lookup(g) ==
    IF picked_users.kind = "dict"
    THEN IF g \in DOMAIN picked_users.map
         THEN [raised |-> "", users |-> picked_users.map[g]]
         ELSE [raised |-> "BatchKeyError", users |-> <<>>]
    ELSE IF g < Len(picked_users.items)
         THEN [raised |-> "BatchTypeError", users |-> <<>>]   \* a Member is not iterable
         ELSE [raised |-> "BatchIndexError", users |-> <<>>]

\* self._previously_selected_users[ctx.guild.id].update(picked)
previously_selected_update(g, picked) ==
    IF previously_selected_users.kind = "dict"
    THEN IF g \in DOMAIN previously_selected_users.map
         THEN [raised |-> "",
               value |-> [previously_selected_users EXCEPT
                            !.map = [h \in DOMAIN @ |->
                                       IF h = g THEN @[h] \cup Range(picked) ELSE @[h]]]]
         ELSE [raised |-> "ExclusionKeyError", value |-> previously_selected_users]
    ELSE [raised |-> "ExclusionTypeError", value |-> previously_selected_users]

\* what pick binds self._picked_users to
store_picked_appending(old, picked) ==
    AsList((IF old.kind = "list" THEN old.items ELSE <<>>) \o picked)

store_picked(old, picked) == AsList(picked)

\* pool = self._pool_for_guild(ctx.guild.id); pool.pick(count)
pick_draw_bypassing_pool(g, count, draw) ==
    [MemberPool_pick(pool_for_guild(g), count, draw) EXCEPT !.pool = pool_for_guild(g)]

pick_draw_accepting_bad_count(g, count, draw) ==
    IF count <= 0
    THEN [raised |-> "", pool |-> MemberPool_close(pool_for_guild(g)), picked |-> <<>>]
    ELSE MemberPool_pick(pool_for_guild(g), count, draw)

pick_draw_accepting_empty_pool(g, count, draw) ==
    IF count > 0 /\ pool_for_guild(g).members = {}
    THEN [raised |-> "", pool |-> MemberPool_close(pool_for_guild(g)), picked |-> <<>>]
    ELSE MemberPool_pick(pool_for_guild(g), count, draw)

pick_draw(g, count, draw) == MemberPool_pick(pool_for_guild(g), count, draw)

\* the for loop of resend over users: every user is sent to, a Forbidden or
\* HTTPException is reported and the loop goes on
resend_loop(users, dm) ==
    [attempted |-> users,
     failed |-> SelectSeq(users, LAMBDA u : dm[u] # "ok")]

Result(op, g, outcome, attempted, failed) ==
    [op |-> op, guild |-> g, outcome |-> outcome,
     attempted |-> attempted, failed |-> failed]

\* ---- Init ---------------------------------------------------------------
Init ==
    /\ pools = <<>>
    /\ title = ""
    /\ picked_users = EmptyDict
    /\ previously_selected_users = EmptyDict
    /\ announcing = [g \in Guilds |-> 0]
    /\ result = Result("init", 0, "", <<>>, <<>>)

\* ---- handlers -----------------------------------------------------------
\* which branch of join is taken
join_outcome_ignoring_is_open(g, author, roles) ==
    IF author_in_previously_selected(author) THEN "RecentlySelected"
    ELSE IF MemberPool_add_member(g, pool_for_guild(g), author, roles).raised # ""
         THEN "RoleIneligible"
         ELSE "Joined"

join_outcome_ignoring_role_error(g, author, roles) ==
    IF pool_for_guild(g).is_open
    THEN IF author_in_previously_selected(author) THEN "RecentlySelected"
         ELSE "Joined"
    ELSE "PoolClosed"

join_outcome(g, author, roles) ==
    IF pool_for_guild(g).is_open
    THEN IF author_in_previously_selected(author) THEN "RecentlySelected"
         ELSE IF MemberPool_add_member(g, pool_for_guild(g), author, roles).raised # ""
              THEN "RoleIneligible"
              ELSE "Joined"
    ELSE "PoolClosed"

join(g, author, roles) ==
    /\ pools' = PoolsWith(g, IF join_outcome(g, author, roles) = "Joined"
                             THEN MemberPool_add_member(g, pool_for_guild(g), author, roles).pool
                             ELSE pool_for_guild(g))
    /\ result' = Result("join", g, join_outcome(g, author, roles), <<>>, <<>>)
    /\ UNCHANGED <<title, picked_users, previously_selected_users, announcing>>

\* which branch of leave is taken
leave_outcome_ignoring_is_open(g) == "Left"

leave_outcome(g) == IF pool_for_guild(g).is_open THEN "Left" ELSE "PoolClosed"

leave(g, author) ==
    /\ pools' = PoolsWith(g, IF leave_outcome(g) = "Left"
                             THEN MemberPool_remove_member(pool_for_guild(g), author)
                             ELSE pool_for_guild(g))
    /\ result' = Result("leave", g, leave_outcome(g), <<>>, <<>>)
    /\ UNCHANGED <<title, picked_users, previously_selected_users, announcing>>

\* `if title: self._title = title`
open_title_always_assigned(t) == t

open_title(t) == IF t # "" THEN t ELSE title

open(g, t) ==
    /\ pools' = PoolsWith(g, MemberPool_open(pool_for_guild(g)))
    /\ title' = open_title(t)
    /\ result' = Result("open", g, "Opened", <<>>, <<>>)
    /\ UNCHANGED <<picked_users, previously_selected_users, announcing>>

\* pool = self._pool_for_guild(ctx.guild.id); pool.close()
close_after_also_clearing(g) == MemberPool_clear(MemberPool_close(pool_for_guild(g)))

close_after(g) == MemberPool_close(pool_for_guild(g))

close(g) ==
    /\ pools' = PoolsWith(g, close_after(g))
    /\ result' = Result("close", g, "Closed", <<>>, <<>>)
    /\ UNCHANGED <<title, picked_users, previously_selected_users, announcing>>

\* the outcome of user.send for each user resend sends to
Deliveries(g) == [Range(picked_users_lookup(g).users) -> DeliveryOutcomes]

\* resend from its entry to its last reply
resend_run(g, dm) ==
    IF picked_users_lookup(g).raised # ""
    THEN [outcome |-> picked_users_lookup(g).raised, attempted |-> <<>>, failed |-> <<>>]
    ELSE [outcome |-> "AllDone",
          attempted |-> resend_loop(picked_users_lookup(g).users, dm).attempted,
          failed |-> resend_loop(picked_users_lookup(g).users, dm).failed]

\* pick up to its first await (the announcement), lines 141-150.  The player
\* channel is taken to exist; MaxInflight caps the picks suspended there.
pick(g, count, draw) ==
    LET r == pick_draw(g, count, draw)
        u == previously_selected_update(g, r.picked)
    IN /\ announcing[g] < MaxInflight
       /\ pools' = PoolsWith(g, r.pool)
       /\ IF r.raised # ""
          THEN /\ result' = Result("pick", g, r.raised, <<>>, <<>>)
               /\ UNCHANGED <<picked_users, previously_selected_users, announcing>>
          ELSE /\ picked_users' = store_picked(picked_users, r.picked)
               /\ IF get_guild_config(g).exclude_selected
                  THEN /\ previously_selected_users' = u.value
                       /\ IF u.raised # ""
                          THEN /\ result' = Result("pick", g, u.raised, <<>>, <<>>)
                               /\ UNCHANGED announcing
                          ELSE /\ result' = Result("pick", g, "Announced", <<>>, <<>>)
                               /\ announcing' = [announcing EXCEPT ![g] = @ + 1]
                  ELSE /\ result' = Result("pick", g, "Announced", <<>>, <<>>)
                       /\ announcing' = [announcing EXCEPT ![g] = @ + 1]
                       /\ UNCHANGED previously_selected_users
       /\ UNCHANGED title

\* pick after the announcement was sent: `await self.resend(ctx, message=message)`
pick_resend(g, dm) ==
    /\ announcing[g] > 0
    /\ announcing' = [announcing EXCEPT ![g] = @ - 1]
    /\ result' = Result("pick_resend", g, resend_run(g, dm).outcome,
                        resend_run(g, dm).attempted, resend_run(g, dm).failed)
    /\ UNCHANGED <<pools, title, picked_users, previously_selected_users>>

resend(g, dm) ==
    /\ result' = Result("resend", g, resend_run(g, dm).outcome,
                        resend_run(g, dm).attempted, resend_run(g, dm).failed)
    /\ UNCHANGED <<pools, title, picked_users, previously_selected_users, announcing>>

list(g) ==
    /\ pools' = PoolsWith(g, pool_for_guild(g))
    /\ result' = Result("list", g, "Listed", <<>>, <<>>)
    /\ UNCHANGED <<title, picked_users, previously_selected_users, announcing>>

\* self._pool_for_guild(ctx.guild.id).clear()
clear_pool_after_only_if_open(g) ==
    IF pool_for_guild(g).is_open THEN MemberPool_clear(pool_for_guild(g))
    ELSE pool_for_guild(g)

clear_pool_after(g) == MemberPool_clear(pool_for_guild(g))

clear_pool(g) ==
    /\ pools' = PoolsWith(g, clear_pool_after(g))
    /\ result' = Result("clear_pool", g, "AllDone", <<>>, <<>>)
    /\ UNCHANGED <<title, picked_users, previously_selected_users, announcing>>

clear_selected(g) ==
    /\ previously_selected_users' = EmptySet
    /\ result' = Result("clear_selected", g, "AllDone", <<>>, <<>>)
    /\ UNCHANGED <<pools, title, picked_users, announcing>>

Next ==
    \/ \E g \in Guilds : \E m \in GuildMembers(g), roles \in SUBSET Roles : join(g, m, roles)
    \/ \E g \in Guilds : \E m \in GuildMembers(g) : leave(g, m)
    \/ \E g \in Guilds, t \in Titles : open(g, t)
    \/ \E g \in Guilds : close(g)
    \/ \E g \in Guilds, count \in Counts :
          \E draw \in Draws(pool_for_guild(g), count) : pick(g, count, draw)
    \/ \E g \in Guilds : \E dm \in Deliveries(g) : pick_resend(g, dm)
    \/ \E g \in Guilds : \E dm \in Deliveries(g) : resend(g, dm)
    \/ \E g \in Guilds : list(g)
    \/ \E g \in Guilds : clear_pool(g)
    \/ \E g \in Guilds : clear_selected(g)

Spec == Init /\ [][Next]_vars

\* ---- the state of one guild as the cog holds it --------------------------
is_open(g) == pool_for_guild(g).is_open

members(g) == pool_for_guild(g).members

\* the members join would find previously selected for guild g
ExclusionSet(g) ==
    IF previously_selected_users.kind = "dict"
    THEN IF g \in DOMAIN previously_selected_users.map
         THEN previously_selected_users.map[g] ELSE {}
    ELSE previously_selected_users.elems

\* the users the cog keeps as picked, as far as guild g is concerned
SelectionBatch(g) ==
    IF picked_users.kind = "dict"
    THEN IF g \in DOMAIN picked_users.map THEN picked_users.map[g] ELSE <<>>
    ELSE picked_users.items

PickRejected == {"InvalidCount", "EmptyPool"}

\* ---- C1 ------------------------------------------------------------------
\* C1: a join issued while the guild's pool is Closed is rejected as PoolClosed
\* and leaves the pool's member set and its Open/Closed state as they were.
C1_JoinClosedRejected ==
    [][\A g \in Guilds :
         (result'.op = "join" /\ result'.guild = g /\ ~is_open(g)) =>
            /\ result'.outcome = "PoolClosed"
            /\ members(g)' = members(g)
            /\ is_open(g)' = is_open(g)]_vars

\* a join was rejected on a closed pool that already had members
C1_Witness ==
    /\ result.op = "join" /\ result.outcome = "PoolClosed"
    /\ members(result.guild) # {}

\* ---- C2 ------------------------------------------------------------------
\* C2: after any pick on a guild the guild's pool is Closed, whether it was
\* Open or Closed before; only open re-opens it, and a join that follows the
\* pick while the pool has not been re-opened is rejected as PoolClosed.
C2_PickCloses ==
    [][\A g \in Guilds :
         /\ (result'.op = "pick" /\ result'.guild = g) => ~is_open(g)'
         /\ (~is_open(g) /\ is_open(g)') => (result'.op = "open" /\ result'.guild = g)
         /\ (result.op = "pick" /\ result.guild = g /\ result'.op = "join" /\ result'.guild = g) =>
               (result'.outcome = "PoolClosed" /\ members(g)' = members(g))]_vars

\* a join was rejected right after a pick that drew from the pool
C2_Witness ==
    /\ result.op = "join" /\ result.outcome = "PoolClosed"
    /\ picked_users.kind = "list"
    /\ Range(picked_users.items) \subseteq members(result.guild)
    /\ picked_users.items # <<>>

C4_PickedAreExcluded ==
    [][\A g \in Guilds :
         /\ (/\ get_guild_config(g).exclude_selected
             /\ result'.op = "pick" /\ result'.guild = g
             /\ result'.outcome \notin PickRejected) =>
               (picked_users'.kind = "list" /\
                Range(picked_users'.items) \subseteq ExclusionSet(g)')
         /\ (/\ get_guild_config(g).exclude_selected
             /\ result'.op = "join" /\ result'.guild = g) =>
               \A m \in ExclusionSet(g), roles \in SUBSET Roles :
                  join(g, m, roles) => result'.outcome = "RecentlySelected"]_vars

\* ---- C5 ------------------------------------------------------------------
\* C5: a dispatch over the batch of the last pick attempts every recipient of
\* the batch exactly once, reports only recipients it attempted as failed, and
\* then signals completion.
C5_DispatchAttemptsAll ==
    (result.op \in {"resend", "pick_resend"} /\ picked_users.kind = "list") =>
        /\ result.outcome = "AllDone"
        /\ result.attempted = picked_users.items
        /\ Range(result.failed) \subseteq Range(result.attempted)

\* ---- C6 ------------------------------------------------------------------
\* C6: a resend while no pick has ever run performs zero deliveries and
\* completes successfully.
C6_ResendWithoutPick ==
    (result.op = "resend" /\ picked_users.kind = "dict") =>
        (result.outcome = "AllDone" /\ result.attempted = <<>>)

\* ---- C7 ------------------------------------------------------------------
\* C7: no operation issued on guild a changes the pool state, member set,
\* round title, ExclusionSet or SelectionBatch of another guild b.
C7_GuildIsolation ==
    [][\A a, b \in Guilds :
         (a # b /\ result'.guild = a) =>
            /\ is_open(b)' = is_open(b)
            /\ members(b)' = members(b)
            /\ title' = title
            /\ ExclusionSet(b)' = ExclusionSet(b)
            /\ SelectionBatch(b)' = SelectionBatch(b)]_vars

\* ---- C8 ------------------------------------------------------------------
\* C8: the step of pick that takes the draw leaves the pool Closed and adds
\* no member, so no state lies between the draw and the closing; a join that
\* runs while a pick of its guild is between its draw and its dispatch, on
\* the pool that pick closed, is rejected as PoolClosed and adds nothing.
C8_JoinNeverInsidePick ==
    [][\A g \in Guilds :
         /\ (result'.op = "pick" /\ result'.guild = g) =>
               (~is_open(g)' /\ members(g)' = members(g))
         /\ (announcing[g] > 0 /\ ~is_open(g) /\ result'.op = "join" /\ result'.guild = g) =>
               (result'.outcome = "PoolClosed" /\ members(g)' = members(g))]_vars

\* a join was rejected while a pick of its guild was still announcing
C8_Witness ==
    /\ result.op = "join" /\ result.outcome = "PoolClosed"
    /\ announcing[result.guild] > 0
    /\ picked_users.kind = "list"

\* ---- C9 ------------------------------------------------------------------
\* C9: resend delivers to exactly the members of the last pick result and
\* leaves the batch, the ExclusionSet, the membership and the pool state alone.
C9_ResendLastBatch ==
    [][\A g \in Guilds :
         (result'.op = "resend" /\ result'.guild = g /\ picked_users.kind = "list") =>
            /\ Range(result'.attempted) = Range(picked_users.items)
            /\ picked_users' = picked_users
            /\ previously_selected_users' = previously_selected_users
            /\ members(g)' = members(g)
            /\ is_open(g)' = is_open(g)]_vars

\* ---- C10 -----------------------------------------------------------------
\* C10 as stated: a join by a member whose roles do not intersect the guild's
\* required roles is rejected as RoleIneligible, membership and state unchanged.
C10_RoleIneligibleAlways ==
    [][\A g \in Guilds, m \in Members, roles \in SUBSET Roles :
         (result'.op = "join" /\ result'.guild = g /\ ~MemberRoleOk(g, roles)
            /\ join(g, m, roles)) =>
               /\ result'.outcome = "RoleIneligible"
               /\ members(g)' = members(g)
               /\ is_open(g)' = is_open(g)]_vars

\* C10 amended: a join on an Open pool by a member whose roles do not
\* intersect the guild's required roles is rejected as RoleIneligible, and a
\* join by such a member on a Closed pool is rejected as PoolClosed; either
\* way the member set and the state are unchanged.
C10_RoleIneligibleWhenOpen ==
    [][\A g \in Guilds, m \in Members, roles \in SUBSET Roles :
         (result'.op = "join" /\ result'.guild = g /\ ~MemberRoleOk(g, roles)
            /\ join(g, m, roles)) =>
               /\ result'.outcome = IF is_open(g) THEN "RoleIneligible" ELSE "PoolClosed"
               /\ members(g)' = members(g)
               /\ is_open(g)' = is_open(g)]_vars

\* a join was rejected for its roles on an open pool that has other members
C10_Witness ==
    /\ result.op = "join" /\ result.outcome = "RoleIneligible"
    /\ is_open(result.guild)
    /\ members(result.guild) # {}

C13_OpenFrame ==
    [][\A g \in Guilds :
         (result'.op = "open" /\ result'.guild = g) =>
            /\ result'.outcome = "Opened"
            /\ is_open(g)'
            /\ members(g)' = members(g)
            /\ previously_selected_users' = previously_selected_users
            /\ picked_users' = picked_users
            /\ \A t \in Titles :
                  open(g, t) => title' = IF t # "" THEN t ELSE title]_vars

\* a pool with members and a stored batch was opened under a title
C13_Witness ==
    /\ result.op = "open" /\ result.outcome = "Opened"
    /\ title # ""
    /\ members(result.guild) # {}
    /\ picked_users.kind = "list"

\* ---- C14 -----------------------------------------------------------------
\* C14: a leave on a Closed pool is rejected as PoolClosed and changes no
\* member set; a leave on an Open pool removes the member if present, is a
\* no-error no-op if not, and removes no other member.
C14_Leave ==
    [][\A g \in Guilds :
         (result'.op = "leave" /\ result'.guild = g) =>
            /\ is_open(g)' = is_open(g)
            /\ \A m \in GuildMembers(g) :
                  leave(g, m) =>
                     IF is_open(g)
                     THEN result'.outcome = "Left" /\ members(g)' = members(g) \ {m}
                     ELSE result'.outcome = "PoolClosed" /\ members(g)' = members(g)]_vars

\* a member left an open pool and another member stayed
C14_Witness ==
    /\ result.op = "leave" /\ result.outcome = "Left"
    /\ is_open(result.guild)
    /\ members(result.guild) # {}
    /\ members(result.guild) # GuildMembers(result.guild)

\* ---- C15 -----------------------------------------------------------------
\* C15: once clear_selected has run, a pick that draws on a guild with
\* exclusion tracking enabled completes normally and records its selected
\* members in that guild's ExclusionSet.
C15_PickAfterClearSelected ==
    (/\ result.op = "pick"
     /\ result.outcome \notin PickRejected
     /\ get_guild_config(result.guild).exclude_selected
     /\ previously_selected_users.kind = "set") =>
        /\ result.outcome = "Announced"
        /\ Range(picked_users.items) \subseteq ExclusionSet(result.guild)

C17_StateChangers ==
    [][\A g \in Guilds :
         /\ (is_open(g)' # is_open(g)) =>
               (result'.op \in {"open", "close", "pick"} /\ result'.guild = g)
         /\ (result'.op \in {"resend", "pick_resend", "list", "clear_selected"}
               /\ result'.guild = g) =>
               (is_open(g)' = is_open(g) /\ members(g)' = members(g))
         /\ (result'.op = "clear_pool" /\ result'.guild = g) =>
               /\ result'.outcome = "AllDone"
               /\ members(g)' = {}
               /\ is_open(g)' = is_open(g)
               /\ previously_selected_users' = previously_selected_users
               /\ picked_users' = picked_users]_vars

\* a closed pool was cleared after a pick had stored a batch
C17_Witness ==
    /\ result.op = "clear_pool" /\ result.outcome = "AllDone"
    /\ ~is_open(result.guild)
    /\ members(result.guild) = {}
    /\ picked_users.items # <<>>

\* ---- C18 -----------------------------------------------------------------
\* C18: a pool starts Closed; close always succeeds and leaves the pool
\* Closed with its membership, the title, the ExclusionSet and the
\* SelectionBatch unchanged, so a close on a Closed pool changes nothing of
\* the guild's state.
C18_CloseIdempotent ==
    [][\A g \in Guilds :
         /\ (g \notin DOMAIN pools /\ g \in DOMAIN pools' /\ result'.op # "open") =>
               (~is_open(g)' /\ members(g)' = {})
         /\ (result'.op = "close" /\ result'.guild = g) =>
               /\ result'.outcome = "Closed"
               /\ ~is_open(g)'
               /\ members(g)' = members(g)
               /\ title' = title
               /\ previously_selected_users' = previously_selected_users
               /\ picked_users' = picked_users
               /\ ~is_open(g) => pool_for_guild(g)' = pool_for_guild(g)]_vars

\* a pool with members was closed
C18_Witness ==
    /\ result.op = "close" /\ result.outcome = "Closed"
    /\ ~is_open(result.guild)
    /\ members(result.guild) # {}

\* ---- C19 -----------------------------------------------------------------
\* C19: every dispatch, from resend or from pick, ends by signalling
\* completion to the caller.
C19_DispatchCompletes ==
    result.op \in {"resend", "pick_resend"} => result.outcome = "AllDone"

\* ---- C20 -----------------------------------------------------------------
\* C20: the dispatch of a pick delivers to exactly the members of the batch
\* held when the dispatch starts, whatever picks ran while it was announcing,
\* and a pick that draws replaces the stored batch by its own draw.
C20_DispatchBatchFixed ==
    [][\A g \in Guilds :
         /\ (result'.op = "pick_resend" /\ result'.guild = g) =>
               (picked_users.kind = "list" /\ result'.attempted = picked_users.items)
         /\ (result'.op = "pick" /\ result'.guild = g /\ result'.outcome \notin PickRejected) =>
               \A count \in 1..MaxCount : \A draw \in Draws(pool_for_guild(g), count) :
                  (picked_users' = store_picked(picked_users, draw) /\ pick(g, count, draw)) =>
                     picked_users'.items = draw]_vars

====
